---- MODULE Spec2Model ----
(***************************************************************************)
(* Subscriber lifecycle of the "coming soon" server.                       *)
(*   Variant A: src/server.js          (one broadcast pass, 20 s after     *)
(*                                      process start)                     *)
(*   Variant B: src/unnamed/part_000   (one broadcast pass per successful  *)
(*                                      subscribe, 5 s later; unsubscribe  *)
(*                                      and check-access routes)           *)
(* Every await of a handler is an interleaving point: a handler is cut     *)
(* into one action per stretch of code between two awaits.  Store          *)
(* operations succeed; a mail send either resolves or rejects.  A run is   *)
(* one process lifetime of one variant, with the requests of two clients.  *)
(***************************************************************************)
EXTENDS Integers, FiniteSets, Bags, TLC

VARIABLES variant, clients, now, store, prevStore, subReq, pass, ca,
          confSent, liveSent, marked, afterScan, seenLive, out

vars == <<variant, clients, now, store, prevStore, subReq, pass, ca,
          confSent, liveSent, marked, afterScan, seenLive, out>>

(* ---------------------------- bounds ----------------------------------- *)
\* Date.now() at process start, in ms (a stand-in for the epoch value)
ProcessStart == 100000
\* the clock stops after this many ticks
MaxTicks == 2

(* --------------------------- constants --------------------------------- *)
DELAY_SECONDS == 20 * 1000
FOLLOW_UP_TIME_LIMIT == 5 * 1000

\* req.body.email when the field is absent
Missing == "<undefined>"
\* the email addresses of requests; "7" is a string that JavaScript converts
\* to the number 7
Emails == {"a@x.io", "b@x.io", "7"}
\* the addresses the clients of one run use: two ordinary ones, or an
\* ordinary one and the numeric one
ClientSets == {{"a@x.io", "b@x.io"}, {"a@x.io", "7"}}
Inputs == Emails \cup {"", Missing}
Startup == "<startup>"
PassIds == Inputs \cup {Startup}

ErrRequired == "Email is required"
ErrDuplicate == "This email is already subscribed."
ErrServer == "Server error"
ErrUnsubscribe == "An error occurred while unsubscribing."

(* ------------------------- JavaScript numbers -------------------------- *)
NaN == [nan |-> TRUE, val |-> 0]
Num(n) == [nan |-> FALSE, val |-> n]

\* Number(s) for a string s, as the binary minus applies it
ToNumber(s) == IF s = "7" THEN Num(7) ELSE IF s = "" THEN Num(0) ELSE NaN

\* x - y
Minus(x, y) == IF x.nan \/ y.nan THEN NaN ELSE Num(x.val - y.val)

\* x > y: false whenever an operand is NaN
GreaterThan(x, y) == IF x.nan \/ y.nan THEN FALSE ELSE x.val > y.val

(* ------------------------------ store ---------------------------------- *)
\* the schema declares followUpEmailSent in the place of isComingSoon
SchemaPathsFollowUp == {"email", "followUpEmailSent"}

\* paths of emailSchema
SchemaPaths == {"email", "isComingSoon"}

\* the schema default of isComingSoon is false
NewSubscriberLive(e) == [email |-> e, isComingSoon |-> FALSE]

\* new Subscriber({ email }): isComingSoon takes the schema default
NewSubscriber(e) == [email |-> e, isComingSoon |-> TRUE]

NoDoc == [email |-> "", isComingSoon |-> TRUE]

Docs(s) == BagToSet(s)

\* the index is not unique: no insert is rejected
UniqueIndexOff(s, e) == FALSE

\* the unique index on email rejects the insert (error code 11000)
UniqueIndexHit(s, e) == \E d \in Docs(s) : d.email = e

\* newSubscriber.save() on a store where the index does not reject it
Save(s, e) == s (+) SetToBag({NewSubscriber(e)})

\* Subscriber.find({ isComingSoon: v })
Find(s, v) == {d \in Docs(s) : d.isComingSoon = v}

\* Subscriber.findOne({ email })
HasDoc(s, e) == \E d \in Docs(s) : d.email = e
FindOne(s, e) == IF HasDoc(s, e) THEN CHOOSE d \in Docs(s) : d.email = e ELSE NoDoc

\* strict mode: an update keeps only the paths the schema declares
SchemaCast(upd) == [k \in (DOMAIN upd) \cap SchemaPaths |-> upd[k]]

ApplyUpdateToggle(d, upd) ==
    [k \in (DOMAIN d) \cup (DOMAIN upd) |->
       IF k \in DOMAIN upd THEN (IF k \in DOMAIN d THEN ~d[k] ELSE upd[k]) ELSE d[k]]

ApplyUpdate(d, upd) ==
    [k \in (DOMAIN d) \cup (DOMAIN upd) |-> IF k \in DOMAIN upd THEN upd[k] ELSE d[k]]

\* Subscriber.findOneAndUpdate({ email: e }, upd)
FindOneAndUpdate(s, e, upd) ==
    IF HasDoc(s, e)
      THEN LET d == FindOne(s, e)
           IN  (s (-) SetToBag({d})) (+) SetToBag({ApplyUpdate(d, SchemaCast(upd))})
      ELSE s

\* subscriber.followUpEmailSent read from a fetched document
FollowUpEmailSent(d) ==
    IF "followUpEmailSent" \in DOMAIN d THEN d.followUpEmailSent ELSE FALSE

\* the update forgets isComingSoon
LiveUpdateFlagOnly(v) == [followUpEmailSent |-> TRUE]

\* the update a pass applies after a successful send
LiveUpdate(v) ==
    IF v = "A" THEN [isComingSoon |-> FALSE]
               ELSE [isComingSoon |-> FALSE, followUpEmailSent |-> TRUE]

(* ------------------- what the last step put out ------------------------ *)
\* an HTTP response (route, status and body) or the console line of a pass
\* (route "pass", email the pass); step names the await the step ended on;
\* status 0: the request has no response yet.  left, found, sub, fresh, sent,
\* late and seen are history the properties use (seen: an earlier response
\* of the run already reported siteLive true)
NoOut == [route |-> "none", step |-> "", email |-> "", status |-> 0, error |-> "",
          hasAccess |-> FALSE, siteLive |-> FALSE, success |-> FALSE,
          line |-> "", left |-> {},
          found |-> FALSE, sub |-> NoDoc,
          fresh |-> FALSE, sent |-> FALSE, late |-> FALSE, seen |-> FALSE]

LogSkipped == "Time limit exceeded. Skipping follow-up emails."
LogSent == "Follow-up email sent to"
LogAllSent == "All follow-up emails sent."
LogError == "Error while sending follow-up emails"

Log(id, step, line) ==
    [NoOut EXCEPT !.route = "pass", !.step = step, !.email = id, !.line = line]

Reply(route, step, e, status, err) ==
    [NoOut EXCEPT !.route = route, !.step = step, !.email = e, !.status = status, !.error = err]

(* ----------------------------- passes ---------------------------------- *)
NoPass == [pc |-> "none", startTime |-> "", due |-> 0, schedAt |-> 0,
           todo |-> {}, cur |-> NoDoc, starts |-> 0]

\* setTimeout(callback, delay) set at time t with callback argument arg
Timer(arg, t, delay) ==
    [NoPass EXCEPT !.pc = "timer", !.startTime = arg, !.due = t + delay, !.schedAt = t]

NoCa == [pc |-> "idle", email |-> "", sub |-> NoDoc, found |-> FALSE,
         fresh |-> FALSE, sent |-> FALSE]

Init ==
    /\ variant \in {"A", "B"}
    /\ clients \in ClientSets
    /\ now = ProcessStart
    /\ store = EmptyBag
    /\ prevStore = EmptyBag
    /\ subReq = [e \in Inputs |-> "idle"]
    /\ pass = [id \in PassIds |->
                 IF id = Startup /\ variant = "A"
                   THEN Timer("", ProcessStart, DELAY_SECONDS)
                   ELSE NoPass]
    /\ ca = NoCa
    /\ confSent = [e \in Inputs |-> 0]
    /\ liveSent = [e \in Inputs |-> 0]
    /\ marked = {}
    /\ afterScan = {}
    /\ seenLive = FALSE
    /\ out = NoOut

\* the clock advances in steps of the one timer delay the variant has
TickMs == IF variant = "A" THEN DELAY_SECONDS ELSE FOLLOW_UP_TIME_LIMIT

\* time passes; the clock stops after MaxTicks ticks, unless a timer still
\* waits to be due
Tick ==
    /\ \/ now < ProcessStart + MaxTicks * TickMs
       \/ \E id \in PassIds : pass[id].pc = "timer" /\ now < pass[id].due
    /\ now' = now + TickMs
    /\ prevStore' = store
    /\ out' = NoOut
    /\ UNCHANGED <<variant, clients, seenLive, store, subReq, pass, ca, confSent, liveSent, marked, afterScan>>

(* --------------------------- POST /api/subscribe ----------------------- *)
\* the check of the email is left out
NotEmailOff(e) == FALSE

\* the email field of the body of a request
Requests == clients \cup {"", Missing}

\* !email
NotEmail(e) == e \in {Missing, ""}

\* the argument the timer callback hands to sendLiveNotificationEmails
TimerArg(newSubscriber, t) == newSubscriber.email

\* the confirmation mail is sent before the save is tried
SubscribeMailFirst(e) ==
    /\ e \in Requests
    /\ prevStore' = store
    /\ IF NotEmail(e)
         THEN /\ out' = Reply("subscribe", "save", e, 400, ErrRequired)
              /\ UNCHANGED <<store, subReq, confSent>>
         ELSE /\ confSent' = [confSent EXCEPT ![e] = @ + 1]
              /\ IF UniqueIndexHit(store, e)
                   THEN /\ out' = Reply("subscribe", "save", e, 400, ErrDuplicate)
                        /\ UNCHANGED <<store, subReq>>
                   ELSE /\ store' = Save(store, e)
                        /\ subReq' = [subReq EXCEPT ![e] = "mailing"]
                        /\ out' = Reply("subscribe", "save", e, 0, "")
    /\ UNCHANGED <<variant, clients, seenLive, now, pass, ca, liveSent, marked, afterScan>>

\* from the request to the end of `await newSubscriber.save()`
SubscribeSave(e) ==
    /\ e \in Requests
    /\ prevStore' = store
    /\ IF NotEmail(e)
         THEN /\ out' = Reply("subscribe", "save", e, 400, ErrRequired)
              /\ UNCHANGED <<store, subReq>>
         ELSE IF UniqueIndexHit(store, e)
           THEN /\ out' = Reply("subscribe", "save", e, 400, ErrDuplicate)
                /\ UNCHANGED <<store, subReq>>
           ELSE /\ store' = Save(store, e)
                /\ subReq' = [subReq EXCEPT ![e] = "mailing"]
                /\ out' = Reply("subscribe", "save", e, 0, "")
    /\ afterScan' = IF ~NotEmail(e) /\ ~UniqueIndexHit(store, e)
                         /\ pass[Startup].pc \in {"loop", "update", "done"}
                      THEN afterScan \cup {e} ELSE afterScan
    /\ UNCHANGED <<variant, clients, seenLive, now, pass, ca, confSent, liveSent, marked>>

\* a failed confirmation mail takes the record out of the store again
SubscribeMailRollback(e, ok) ==
    /\ subReq[e] = "mailing"
    /\ subReq' = [subReq EXCEPT ![e] = "idle"]
    /\ prevStore' = store
    /\ IF ok
         THEN /\ confSent' = [confSent EXCEPT ![e] = @ + 1]
              /\ pass' = IF variant = "B"
                           THEN [pass EXCEPT ![e] = Timer(TimerArg(NewSubscriber(e), now), now, FOLLOW_UP_TIME_LIMIT)]
                           ELSE pass
              /\ out' = Reply("subscribe", "mail", e, 200, "")
              /\ UNCHANGED store
         ELSE /\ out' = Reply("subscribe", "mail", e, 500, ErrServer)
              /\ store' = store (-) SetToBag({FindOne(store, e)})
              /\ UNCHANGED <<confSent, pass>>
    /\ UNCHANGED <<variant, clients, seenLive, now, ca, liveSent, marked, afterScan>>

\* from the end of `await transporter.sendMail(mailOptions)` to the response
SubscribeMail(e, ok) ==
    /\ subReq[e] = "mailing"
    /\ subReq' = [subReq EXCEPT ![e] = "idle"]
    /\ prevStore' = store
    /\ IF ok
         THEN /\ confSent' = [confSent EXCEPT ![e] = @ + 1]
              /\ pass' = IF variant = "B"
                           THEN [pass EXCEPT ![e] = Timer(TimerArg(NewSubscriber(e), now), now, FOLLOW_UP_TIME_LIMIT)]
                           ELSE pass
              /\ out' = Reply("subscribe", "mail", e, 200, "")
         ELSE /\ out' = Reply("subscribe", "mail", e, 500, ErrServer)
              /\ UNCHANGED <<confSent, pass>>
    /\ UNCHANGED <<variant, clients, seenLive, now, store, ca, liveSent, marked, afterScan>>

(* ----------------------- sendLiveNotificationEmails -------------------- *)
\* timeElapsed > FOLLOW_UP_TIME_LIMIT, as the pass computes it
TimeLimitExceeded(currentTime, startTime) ==
    GreaterThan(Minus(Num(currentTime), ToNumber(startTime)), Num(FOLLOW_UP_TIME_LIMIT))

\* the timer is an interval: a finished pass waits for the next firing
AfterSubscriberRearm(todo) == IF todo = {} THEN "timer" ELSE "loop"

\* where a pass continues once the current subscriber is dealt with
AfterSubscriber(todo) == IF todo = {} THEN "done" ELSE "loop"

\* a timer is due: its callback calls sendLiveNotificationEmails, which
\* issues the find
TimerFire(id) ==
    /\ pass[id].pc = "timer"
    /\ now >= pass[id].due
    /\ pass' = [pass EXCEPT ![id].pc = "find", ![id].starts = @ + 1]
    /\ prevStore' = store
    /\ out' = NoOut
    /\ UNCHANGED <<variant, clients, seenLive, now, store, subReq, ca, confSent, liveSent, marked, afterScan>>

\* the find resolves; Variant B then applies the time limit
PassFind(id) ==
    /\ pass[id].pc = "find"
    /\ LET subscribers == Find(store, TRUE)
           skip == variant = "B" /\ TimeLimitExceeded(now, pass[id].startTime)
           late == now - pass[id].schedAt > FOLLOW_UP_TIME_LIMIT
       IN  /\ pass' = [pass EXCEPT
                         ![id].startTime = "", ![id].due = 0, ![id].schedAt = 0,
                         ![id].todo = IF skip THEN {} ELSE subscribers,
                         ![id].pc = IF skip THEN "done" ELSE AfterSubscriber(subscribers)]
           /\ out' = [Log(id, "find", IF skip THEN LogSkipped
                               ELSE IF subscribers = {} THEN LogAllSent ELSE "")
                        EXCEPT !.late = late,
                               !.left = IF skip THEN {} ELSE {d.email : d \in subscribers}]
    /\ prevStore' = store
    /\ UNCHANGED <<variant, clients, seenLive, now, store, subReq, ca, confSent, liveSent, marked, afterScan>>

\* one iteration, for the next fetched subscriber d, up to the end of
\* `await transporter.sendMail(...)`; a rejected send leaves the loop for the
\* catch of the function.  find gives no order: any fetched subscriber may
\* be the next
PassSend(id, ok) ==
    /\ pass[id].pc = "loop"
    /\ \E d \in pass[id].todo :
         IF variant = "B" /\ FollowUpEmailSent(d)
           THEN /\ pass' = [pass EXCEPT ![id].todo = @ \ {d},
                                        ![id].pc = AfterSubscriber(pass[id].todo \ {d})]
                /\ out' = Log(id, "skip", IF pass[id].todo = {d} THEN LogAllSent ELSE "")
                /\ UNCHANGED liveSent
           ELSE IF ok
             THEN /\ liveSent' = [liveSent EXCEPT ![d.email] = @ + 1]
                  /\ pass' = [pass EXCEPT ![id].todo = @ \ {d},
                                          ![id].cur = d,
                                          ![id].pc = "update"]
                  /\ out' = [Log(id, "send", LogSent) EXCEPT
                               !.left = {x.email : x \in pass[id].todo \ {d}}]
             ELSE /\ pass' = [pass EXCEPT ![id].todo = {}, ![id].pc = "done"]
                  /\ out' = [Log(id, "send", LogError) EXCEPT
                               !.left = {x.email : x \in pass[id].todo \ {d}}]
                  /\ UNCHANGED liveSent
    /\ prevStore' = store
    /\ UNCHANGED <<variant, clients, seenLive, now, store, subReq, ca, confSent, marked, afterScan>>

\* the findOneAndUpdate after a successful send
PassUpdate(id) ==
    /\ pass[id].pc = "update"
    /\ store' = FindOneAndUpdate(store, pass[id].cur.email, LiveUpdate(variant))
    /\ marked' = IF HasDoc(store, pass[id].cur.email)
                   THEN marked \cup {pass[id].cur.email} ELSE marked
    /\ pass' = [pass EXCEPT ![id].cur = NoDoc, ![id].pc = AfterSubscriber(pass[id].todo)]
    /\ out' = Log(id, "update", IF pass[id].todo = {} THEN LogAllSent ELSE "")
    /\ prevStore' = store
    /\ UNCHANGED <<variant, clients, seenLive, now, subReq, ca, confSent, liveSent, afterScan>>

(* --------------------------- GET /api/site-status ---------------------- *)
\* liveSubscribers.length > 1
SiteStatusLiveMany(s) == Cardinality(Find(s, FALSE)) > 1

\* liveSubscribers.length > 0
SiteStatusLive(s) == Cardinality(Find(s, FALSE)) > 0

SiteStatus ==
    /\ out' = [Reply("site-status", "find", "", 200, "") EXCEPT
                 !.siteLive = SiteStatusLive(store), !.seen = seenLive]
    /\ seenLive' = (seenLive \/ out'.siteLive)
    /\ prevStore' = store
    /\ UNCHANGED <<variant, clients, now, store, subReq, pass, ca, confSent, liveSent, marked, afterScan>>

(* --------------------------- POST /api/unsubscribe --------------------- *)
\* the handler deletes from the Subscriber collection
UnsubscribeDeletes(e) ==
    /\ variant = "B"
    /\ e \in Requests
    /\ IF HasDoc(store, e)
         THEN /\ store' = store (-) SetToBag({FindOne(store, e)})
              /\ out' = [Reply("unsubscribe", "", e, 200, "") EXCEPT !.success = TRUE]
         ELSE /\ store' = store
              /\ out' = Reply("unsubscribe", "", e, 404, "User not found.")
    /\ prevStore' = store
    /\ UNCHANGED <<variant, clients, seenLive, now, subReq, pass, ca, confSent, liveSent, marked, afterScan>>

\* `User` is declared nowhere in the file: evaluating User.deleteOne throws
\* a ReferenceError inside the try, and the catch answers 500
Unsubscribe(e) ==
    /\ variant = "B"
    /\ e \in Requests
    /\ out' = Reply("unsubscribe", "", e, 500, ErrUnsubscribe)
    /\ prevStore' = store
    /\ UNCHANGED <<variant, clients, seenLive, now, store, subReq, pass, ca, confSent, liveSent, marked, afterScan>>

(* --------------------------- POST /api/check-access -------------------- *)
CheckAccessLivePending(s) == Cardinality(Find(s, TRUE)) > 0

\* Subscriber.find({ isComingSoon: false }).countDocuments() > 0
CheckAccessLive(s) == Cardinality(Find(s, FALSE)) > 0

\* subscriber.isComingSoon === true
HasAccessInverted(d) == d.isComingSoon = TRUE

\* subscriber.isComingSoon === false
HasAccess(d) == d.isComingSoon = FALSE

\* from the request to the end of `await Subscriber.findOne({ email })`
CheckAccessFind(e) ==
    /\ variant = "B"
    /\ e \in Requests
    /\ ca.pc = "idle"
    /\ prevStore' = store
    /\ IF NotEmail(e)
         THEN /\ out' = Reply("check-access", "", e, 400, ErrRequired)
              /\ UNCHANGED ca
         ELSE /\ ca' = [pc |-> "count", email |-> e, sub |-> FindOne(store, e),
                        found |-> HasDoc(store, e), fresh |-> e \in marked,
                        sent |-> liveSent[e] > 0]
              /\ out' = NoOut
    /\ UNCHANGED <<variant, clients, seenLive, now, store, subReq, pass, confSent, liveSent, marked, afterScan>>

\* from the end of the countDocuments await to the response
CheckAccessCount ==
    /\ ca.pc = "count"
    /\ LET siteLive == CheckAccessLive(store)
           hasAccess == IF ca.found THEN HasAccess(ca.sub) ELSE FALSE
       IN  out' = [Reply("check-access", "count", ca.email, 200, "") EXCEPT
                     !.hasAccess = hasAccess, !.siteLive = siteLive,
                     !.found = ca.found, !.sub = ca.sub,
                     !.fresh = ca.fresh, !.sent = ca.sent, !.seen = seenLive]
    /\ seenLive' = (seenLive \/ out'.siteLive)
    /\ ca' = NoCa
    /\ prevStore' = store
    /\ UNCHANGED <<variant, clients, now, store, subReq, pass, confSent, liveSent, marked, afterScan>>
\* every interleaving of the steps of the requests, timers and passes
Next ==
    \/ Tick
    \/ \E e \in Inputs : SubscribeSave(e)
    \/ \E e \in Inputs, ok \in BOOLEAN : SubscribeMail(e, ok)
    \/ \E id \in PassIds : TimerFire(id)
    \/ \E id \in PassIds : PassFind(id)
    \/ \E id \in PassIds, ok \in BOOLEAN : PassSend(id, ok)
    \/ \E id \in PassIds : PassUpdate(id)
    \/ SiteStatus
    \/ \E e \in Inputs : Unsubscribe(e)
    \/ \E e \in Inputs : CheckAccessFind(e)
    \/ CheckAccessCount

Spec == Init /\ [][Next]_vars

\* the steps when every mail send resolves
NextOk ==
    \/ Tick
    \/ \E e \in Inputs : SubscribeSave(e)
    \/ \E e \in Inputs : SubscribeMail(e, TRUE)
    \/ \E id \in PassIds : TimerFire(id)
    \/ \E id \in PassIds : PassFind(id)
    \/ \E id \in PassIds : PassSend(id, TRUE)
    \/ \E id \in PassIds : PassUpdate(id)
    \/ SiteStatus
    \/ \E e \in Inputs : Unsubscribe(e)
    \/ \E e \in Inputs : CheckAccessFind(e)
    \/ CheckAccessCount

\* the event loop runs every continuation that is ready: time passes, a due
\* timer fires, an awaited store operation or mail send resolves.  Requests
\* are the clients' choice and get no fairness
Fairness ==
    /\ WF_vars(Tick)
    /\ WF_vars(CheckAccessCount)
    /\ \A e \in Inputs : WF_vars(SubscribeMail(e, TRUE))
    /\ \A id \in PassIds :
         /\ WF_vars(TimerFire(id))
         /\ WF_vars(PassFind(id))
         /\ WF_vars(PassSend(id, TRUE))
         /\ WF_vars(PassUpdate(id))

SpecLive == Init /\ [][NextOk]_vars /\ Fairness

(* ============================ properties =============================== *)
\* number of records the store holds for email e
Records(s, e) ==
    CopiesIn([email |-> e, isComingSoon |-> TRUE], s)
      + CopiesIn([email |-> e, isComingSoon |-> FALSE], s)

IsActive(s, e) == \E d \in Docs(s) : d.email = e /\ d.isComingSoon = FALSE
IsPending(s, e) == \E d \in Docs(s) : d.email = e /\ d.isComingSoon = TRUE
Falsy == {"", Missing}

\* C1: in both variants the store never holds more than one record for an
\* email, and a subscribe for an email that has a record answers 400 with the
\* duplicate message and leaves the store as it was.
C1_OneRecordPerEmail ==
    /\ \A e \in Inputs : Records(store, e) <= 1
    /\ (out.route = "subscribe" /\ out.step = "save" /\ HasDoc(prevStore, out.email))
         => (out.status = 400 /\ out.error = ErrDuplicate /\ store = prevStore)

\* a duplicate subscribe is rejected while the first request for the same
\* email still awaits its confirmation mail
C1_Witness ==
    /\ out.route = "subscribe" /\ out.step = "save" /\ out.status = 400
    /\ out.error = ErrDuplicate
    /\ HasDoc(prevStore, out.email)
    /\ subReq[out.email] = "mailing"

\* C2: in Variant B no email is sent the live notification more than once,
\* however the passes of distinct subscriptions interleave.
C2_NoDuplicateLiveMail ==
    variant = "B" => \A e \in Emails : liveSent[e] <= 1

\* C3: a pass that ends has attempted a send to every subscriber it fetched:
\* a failed send does not leave the other fetched subscribers unattempted.
C3_FailedSendDoesNotAbort ==
    (out.route = "pass" /\ out.step = "send" /\ pass[out.email].pc = "done")
      => out.left = {}

\* C4 as stated: once a live-notification send to e has succeeded, the record
\* of e has isComingSoon = false, and a check-access request for e made after
\* the send answers hasAccess: true.
C4_ActiveOnceSent ==
    /\ \A e \in Emails : liveSent[e] > 0 => IsActive(store, e)
    /\ (out.route = "check-access" /\ out.status = 200 /\ out.sent) => out.hasAccess

\* C4 amended: once the update that follows a successful send to e has been
\* applied, the record of e has isComingSoon = false, and (Variant B) every
\* check-access request for e made after that update answers hasAccess: true.
C4_ActiveOnceUpdated ==
    /\ \A e \in marked : IsActive(store, e) /\ ~IsPending(store, e)
    /\ (out.route = "check-access" /\ out.status = 200 /\ out.fresh) => out.hasAccess

\* a check-access made after the update of its email answers hasAccess: true
C4_Witness ==
    /\ out.route = "check-access" /\ out.status = 200
    /\ out.fresh /\ out.hasAccess
    /\ out.email \in marked

\* C5: an unsubscribe for an email without a record answers 404 and leaves
\* the store as it was.
C5_UnsubscribeUnknown404 ==
    (out.route = "unsubscribe" /\ ~HasDoc(prevStore, out.email))
      => (out.status = 404 /\ store = prevStore)

\* C6: an unsubscribe for an email with a record answers 200 {success: true}
\* and removes that record and no other.
C6_UnsubscribeRemoves ==
    (out.route = "unsubscribe" /\ HasDoc(prevStore, out.email))
      => /\ out.status = 200 /\ out.success
         /\ ~HasDoc(store, out.email)
         /\ \A e \in Emails \ {out.email} : Records(store, e) = Records(prevStore, e)

\* C7: in Variant B a pass whose find resolves more than FOLLOW_UP_TIME_LIMIT
\* after its timer was set is abandoned: it ends there, sends nothing and
\* changes no record.
C7_LateAttemptAbandoned ==
    (variant = "B" /\ out.route = "pass" /\ out.step = "find" /\ out.late)
      => (out.line = LogSkipped /\ pass[out.email].pc = "done" /\ store = prevStore)

C9_SiteLiveIffAnyActive ==
    (out.route \in {"site-status", "check-access"} /\ out.status = 200)
      => (out.siteLive <=> \E d \in Docs(store) : d.isComingSoon = FALSE)

\* site-status answers siteLive: true while exactly one of two subscribers
\* is active
C9_Witness ==
    /\ out.route = "site-status" /\ out.status = 200 /\ out.siteLive
    /\ \E e \in Emails : IsPending(store, e)
    /\ Cardinality({e \in Emails : IsActive(store, e)}) = 1

\* C10: a subscribe with a missing or empty email answers 400 and changes
\* nothing; no record, no mail and no timer ever exists for such an email.
C10_MissingEmailRejected ==
    /\ (out.route = "subscribe" /\ out.email \in Falsy)
         => (out.status = 400 /\ out.error = ErrRequired /\ store = prevStore)
    /\ \A e \in Falsy :
         /\ Records(store, e) = 0
         /\ subReq[e] = "idle"
         /\ confSent[e] = 0 /\ liveSent[e] = 0
         /\ pass[e].pc = "none"

\* an empty email is rejected by a Variant B server that has a subscriber
\* and a timer set
C10_Witness ==
    /\ variant = "B"
    /\ out.route = "subscribe" /\ out.email = "" /\ out.status = 400
    /\ store # EmptyBag
    /\ \E id \in Emails : pass[id].pc = "timer"

\* C11: ACTIVE is terminal: an email whose record has had isComingSoon =
\* false never has a record with isComingSoon = true again, whatever
\* subscribe, unsubscribe, check-access, site-status and pass steps follow.
C11_ActiveIsTerminal ==
    \A e \in Emails :
      (e \in marked \/ IsActive(prevStore, e)) => ~IsPending(store, e)

\* a subscribe and an unsubscribe for an active email both leave it active
C11_Witness ==
    /\ out.route \in {"subscribe", "unsubscribe"}
    /\ out.email \in marked
    /\ IsActive(store, out.email)

\* C12: check-access answers 200 with hasAccess the negation of isComingSoon
\* of the record it read for the email, and hasAccess: false when it read no
\* record.
C12_HasAccessIsNotComingSoon ==
    (out.route = "check-access" /\ out.step = "count")
      => /\ out.status = 200
         /\ out.found => /\ out.sub.email = out.email
                         /\ out.hasAccess <=> ~out.sub.isComingSoon
                         /\ HasDoc(store, out.email)
         /\ ~out.found => ~out.hasAccess
         /\ out.hasAccess => IsActive(store, out.email)

\* check-access answers hasAccess: false for an email without a record
\* while the other subscriber is active
C12_Witness ==
    /\ out.route = "check-access" /\ out.status = 200
    /\ ~out.found /\ ~out.hasAccess
    /\ ~HasDoc(store, out.email)
    /\ marked # {}

C14_WholePendingSetAttempted ==
    (variant = "B" /\ out.route = "pass" /\ out.line # LogSkipped)
      => /\ out.step = "find" => out.left = {e \in Emails : IsPending(store, e)}
         /\ (out.step # "find" /\ pass[out.email].pc = "done") => out.left = {}

\* C15: in Variant B no stored record has followUpEmailSent = true together
\* with isComingSoon = true, and the followUpEmailSent check of the loop
\* skips no subscriber the scan returned.
C15_FollowUpNeverSkips ==
    variant = "B" =>
      /\ \A d \in Docs(store) : ~(FollowUpEmailSent(d) /\ d.isComingSoon)
      /\ ~(out.route = "pass" /\ out.step = "skip")

\* a Variant B pass sends to a fetched subscriber after an update has been
\* applied to another
C15_Witness ==
    /\ variant = "B"
    /\ out.route = "pass" /\ out.step = "send" /\ out.line = LogSent
    /\ \E e \in marked : e # pass[out.email].cur.email

\* C16: a confirmation mail goes to e only once the request has stored the
\* record of e, and a subscribe rejected as a duplicate sends none: there are
\* never more confirmation mails to e than records of e.
C16_StoredBeforeConfirmation ==
    \A e \in Inputs :
      /\ confSent[e] <= Records(store, e)
      /\ subReq[e] = "mailing" => HasDoc(store, e)

\* a duplicate subscribe is rejected after the one confirmation mail
C16_Witness ==
    /\ out.route = "subscribe" /\ out.step = "save" /\ out.error = ErrDuplicate
    /\ confSent[out.email] = 1
    /\ subReq[out.email] = "idle"

\* C17 as stated: when the confirmation mail fails, the record the request
\* stored remains with isComingSoon = true, the response is 500, Variant B
\* sets no timer for the subscription, and a retry for the email gets the 400
\* duplicate error.
C17_FailedMailKeepsPending ==
    /\ (out.route = "subscribe" /\ out.step = "mail" /\ out.status # 200)
         => /\ out.status = 500
            /\ IsPending(store, out.email)
            /\ pass[out.email].pc = "none"
    /\ (out.route = "subscribe" /\ out.step = "save" /\ HasDoc(prevStore, out.email)
          /\ confSent[out.email] = 0 /\ subReq[out.email] = "idle")
         => (out.status = 400 /\ out.error = ErrDuplicate)

\* C17 amended: when the confirmation mail fails, the record the request
\* stored stays in the store and the failure changes no record, the response
\* is 500, Variant B sets no timer for the subscription, and a retry for the
\* email gets the 400 duplicate error.
C17_FailedMailKeepsRecord ==
    /\ (out.route = "subscribe" /\ out.step = "mail" /\ out.status # 200)
         => /\ out.status = 500 /\ out.error = ErrServer
            /\ HasDoc(store, out.email) /\ store = prevStore
            /\ confSent[out.email] = 0
            /\ pass[out.email].pc = "none"
    /\ \A e \in Emails :
         (HasDoc(store, e) /\ confSent[e] = 0) => pass[e].pc = "none"
    /\ (out.route = "subscribe" /\ out.step = "save" /\ HasDoc(prevStore, out.email)
          /\ confSent[out.email] = 0 /\ subReq[out.email] = "idle")
         => (out.status = 400 /\ out.error = ErrDuplicate /\ store = prevStore)

\* the retry of a subscribe whose confirmation mail failed is rejected as a
\* duplicate
C17_Witness ==
    /\ out.route = "subscribe" /\ out.step = "save" /\ out.error = ErrDuplicate
    /\ HasDoc(store, out.email)
    /\ confSent[out.email] = 0 /\ subReq[out.email] = "idle"
    /\ pass[out.email].pc = "none"

\* C18: in Variant B, with fair scheduling and every mail send and store
\* operation succeeding, every subscriber whose subscribe answered 200
\* eventually has isComingSoon = false.
C18_EventuallyActive ==
    \A e \in Emails : (variant = "B" /\ confSent[e] > 0) ~> IsActive(store, e)

\* C19: siteLive is stable: once a site-status or check-access response has
\* reported siteLive true, every later site-status and check-access response
\* of the run reports siteLive true, whatever subscribe, unsubscribe and
\* pass steps come in between.
C19_SiteLiveStable ==
    (out.route \in {"site-status", "check-access"} /\ out.status = 200 /\ out.seen)
       => out.siteLive

\* a later response reports siteLive true with a subscription still pending
C19_Witness ==
    /\ out.route \in {"site-status", "check-access"} /\ out.status = 200
    /\ out.seen /\ out.siteLive
    /\ \E e \in Emails : IsPending(store, e)

\* C20: every check-access response with hasAccess true also has siteLive
\* true, although the subscriber lookup and the active count are two store
\* reads with other steps in between.
C20_AccessImpliesLive ==
    (out.route = "check-access" /\ out.status = 200 /\ out.hasAccess) => out.siteLive

\* a response grants access and reports the site live while a pass is in the
\* middle of its loop, waiting for a record update
C20_Witness ==
    /\ out.route = "check-access" /\ out.status = 200
    /\ out.hasAccess /\ out.siteLive
    /\ \E id \in PassIds : pass[id].pc = "update"
====
